---- MODULE Spec2Model ----
(***************************************************************************)
(* Model of server.py: four MCP tools that forward one call each to the    *)
(* upstream REST service (GET, url-encoded form POST, multipart POST).     *)
(* Text is modelled as sequences of one-character strings, Python values   *)
(* as tagged records.                                                      *)
(***************************************************************************)
EXTENDS Integers, Sequences, FiniteSets, TLC

(* ------------------------------ bounds -------------------------------- *)

\* number of tool invocations that may be in flight at once
NumInv == 2

\* length of the boundary token in the model (uuid4().hex has 32 characters)
BoundaryLen == 2

\* longest run of arbitrary characters enumerated as file content
MaxContentLen == 2

(* --------------------------- Python values ---------------------------- *)

None == [t |-> "None"]

PyStr(s) == [t |-> "str", s |-> s]

PyBool(b) == [t |-> "bool", b |-> b]

PyInt(n) == [t |-> "int", n |-> n]

\* a float given by its shortest decimal digits d and the position p of the
\* decimal point: the value is 0.d1d2... * 10^p
PyFloat(d, p) == [t |-> "float", d |-> d, p |-> p]

Digit(k) == <<"0", "1", "2", "3", "4", "5", "6", "7", "8", "9">>[k + 1]

RECURSIVE IntDigits(_)
IntDigits(n) == IF n < 10 THEN <<Digit(n)>> ELSE IntDigits(n \div 10) \o <<Digit(n % 10)>>

RECURSIVE Zeros(_)
Zeros(n) == IF n <= 0 THEN <<>> ELSE <<"0">> \o Zeros(n - 1)

\* repr of a positive float: fixed notation unless the exponent is below -4
\* or at least 16, then d[.ddd]e[+-]XX
float_repr(d, p) ==
    IF p <= -4 \/ p > 16
    THEN LET e == p - 1
             a == IF e < 0 THEN 0 - e ELSE e
         IN  <<d[1]>> \o (IF Len(d) > 1 THEN <<".">> \o Tail(d) ELSE <<>>)
                 \o <<"e", IF e < 0 THEN "-" ELSE "+">>
                 \o (IF a < 10 THEN <<"0">> ELSE <<>>) \o IntDigits(a)
    ELSE IF p <= 0 THEN <<"0", ".">> \o Zeros(0 - p) \o d
    ELSE IF p >= Len(d) THEN d \o Zeros(p - Len(d)) \o <<".", "0">>
    ELSE SubSeq(d, 1, p) \o <<".">> \o SubSeq(d, p + 1, Len(d))

\* str(v), as used by urlencode and by the f-string of _post_multipart
py_str(v) ==
    CASE v.t = "str" -> v.s
      [] v.t = "bool" -> IF v.b THEN <<"T", "r", "u", "e">> ELSE <<"F", "a", "l", "s", "e">>
      [] v.t = "int" -> IntDigits(v.n)
      [] v.t = "float" -> float_repr(v.d, v.p)
      [] v.t = "None" -> <<"N", "o", "n", "e">>

(* ------------------------------- text --------------------------------- *)

CRLF == <<"\r", "\n">>

DashDash == <<"-", "-">>

StartsWith(s, p) == Len(s) >= Len(p) /\ SubSeq(s, 1, Len(p)) = p

\* first index at which p occurs in s, 0 when it does not occur
IndexOf(s, p) ==
    LET hits == {i \in 1..(Len(s) - Len(p) + 1) : SubSeq(s, i, i + Len(p) - 1) = p}
    IN  IF hits = {} THEN 0 ELSE CHOOSE i \in hits : \A j \in hits : i <= j

Contains(s, p) == IndexOf(s, p) # 0

\* last index at which character c occurs in s, 0 when it does not occur
LastIndexOfChar(s, c) ==
    LET hits == {i \in 1..Len(s) : s[i] = c}
    IN  IF hits = {} THEN 0 ELSE CHOOSE i \in hits : \A j \in hits : i >= j

Drop(s, n) == SubSeq(s, n + 1, Len(s))

(* ---------------------- form encoding (_post_json) -------------------- *)

\* urllib.parse.quote_plus on one character: letters, digits and _.-~ are
\* kept, a space becomes +, every other character its %XX escape
quote_char(c) ==
    CASE c = " " -> <<"+">>
      [] c = "&" -> <<"%", "2", "6">>
      [] c = "=" -> <<"%", "3", "D">>
      [] c = "+" -> <<"%", "2", "B">>
      [] c = "%" -> <<"%", "2", "5">>
      [] c = "/" -> <<"%", "2", "F">>
      [] c = "\"" -> <<"%", "2", "2">>
      [] c = "\r" -> <<"%", "0", "D">>
      [] c = "\n" -> <<"%", "0", "A">>
      [] OTHER -> <<c>>

RECURSIVE quote_plus(_)
quote_plus(s) == IF s = <<>> THEN <<>> ELSE quote_char(Head(s)) \o quote_plus(Tail(s))

\* urlencode of a sequence of <<key, value>> items: k=v pairs joined by &
RECURSIVE urlencode(_)
urlencode(items) ==
    IF items = <<>> THEN <<>>
    ELSE LET kv == Head(items)
             pair == quote_plus(kv[1]) \o <<"=">> \o quote_plus(py_str(kv[2]))
         IN  IF Len(items) = 1 THEN pair ELSE pair \o <<"&">> \o urlencode(Tail(items))

\* a variant that keeps the items whose value is None
not_none_unfiltered(data) == data

\* {k: v for k, v in data.items() if v is not None}
not_none(data) == SelectSeq(data, LAMBDA kv : kv[2] # None)

\* the request _post_json builds: a POST whose body is the encoded form
post_json_request(path, data) ==
    [method |-> "POST", path |-> path, ctype |-> <<>>, body |-> urlencode(not_none(data))]

\* the request _get_json builds: a GET without a body
get_json_request(path) == [method |-> "GET", path |-> path, ctype |-> <<>>, body |-> <<>>]

(* ------------------ multipart encoding (_post_multipart) -------------- *)

\* os.path.basename: what follows the last slash
basename(path) == Drop(path, LastIndexOfChar(path, "/"))

\* posixpath.splitext(...)[1]: from the last dot on, unless only dots precede it
splitext_ext(name) ==
    LET i == LastIndexOfChar(name, ".")
    IN  IF i = 0 \/ (\A j \in 1..(i - 1) : name[j] = ".") THEN <<>> ELSE Drop(name, i - 1)

\* mimetypes.guess_type(filename)[0] or 'application/octet-stream'
filetype(filename) ==
    LET ext == splitext_ext(filename)
    IN  CASE ext = <<".", "p", "n", "g">> -> <<"i", "m", "a", "g", "e", "/", "p", "n", "g">>
          [] ext = <<".", "t", "x", "t">> -> <<"t", "e", "x", "t", "/", "p", "l", "a", "i", "n">>
          [] OTHER -> <<"a", "p", "p", "l", "i", "c", "a", "t", "i", "o", "n", "/",
                        "o", "c", "t", "e", "t", "-", "s", "t", "r", "e", "a", "m">>

S_ContentDispositionName ==
    <<"C", "o", "n", "t", "e", "n", "t", "-", "D", "i", "s", "p", "o", "s", "i", "t", "i", "o", "n",
      ":", " ", "f", "o", "r", "m", "-", "d", "a", "t", "a", ";", " ", "n", "a", "m", "e", "=", "\"">>

S_Filename == <<";", " ", "f", "i", "l", "e", "n", "a", "m", "e", "=", "\"">>

S_ContentType == <<"C", "o", "n", "t", "e", "n", "t", "-", "T", "y", "p", "e", ":", " ">>

S_MultipartBoundary ==
    <<"m", "u", "l", "t", "i", "p", "a", "r", "t", "/", "f", "o", "r", "m", "-", "d", "a", "t", "a",
      ";", " ", "b", "o", "u", "n", "d", "a", "r", "y", "=">>

\* the first loop of _post_multipart: one part per field whose value is not None
RECURSIVE field_parts(_, _)
field_parts(boundary, fields) ==
    IF fields = <<>> THEN <<>>
    ELSE LET kv == Head(fields)
             rest == field_parts(boundary, Tail(fields))
         IN  IF kv[2] = None THEN rest
             ELSE DashDash \o boundary \o CRLF
                    \o S_ContentDispositionName \o kv[1] \o <<"\"">> \o CRLF \o CRLF
                    \o py_str(kv[2]) \o CRLF \o rest

\* the second loop of _post_multipart: one part per file, files being a
\* sequence of <<field, [name, content]>>
RECURSIVE file_parts(_, _)
file_parts(boundary, files) ==
    IF files = <<>> THEN <<>>
    ELSE LET field == Head(files)[1]
             file == Head(files)[2]
             filename == basename(file.name)
         IN  DashDash \o boundary \o CRLF
               \o S_ContentDispositionName \o field \o <<"\"">>
               \o S_Filename \o filename \o <<"\"">> \o CRLF
               \o S_ContentType \o filetype(filename) \o CRLF \o CRLF
               \o file.content \o CRLF \o file_parts(boundary, Tail(files))

multipart_data(boundary, fields, files) ==
    field_parts(boundary, fields) \o file_parts(boundary, files)
        \o DashDash \o boundary \o DashDash \o CRLF

\* the request _post_multipart builds
post_multipart_request(path, boundary, fields, files) ==
    [method |-> "POST", path |-> path, ctype |-> S_MultipartBoundary \o boundary,
     body |-> multipart_data(boundary, fields, files)]

(* ------------------------------ the tools ----------------------------- *)

Tools == {"sol_create_wallet", "sol_transfer_sol", "sol_execute_trade", "sol_create_token"}

\* the characters of a parameter name, as they appear in a request body
Key(name) ==
    CASE name = "fromPrivateKey" -> <<"f", "r", "o", "m", "P", "r", "i", "v", "a", "t", "e", "K", "e", "y">>
      [] name = "toPublicKey" -> <<"t", "o", "P", "u", "b", "l", "i", "c", "K", "e", "y">>
      [] name = "amountSol" -> <<"a", "m", "o", "u", "n", "t", "S", "o", "l">>
      [] name = "privateKeyBase58" -> <<"p", "r", "i", "v", "a", "t", "e", "K", "e", "y", "B", "a", "s", "e", "5", "8">>
      [] name = "publicKey" -> <<"p", "u", "b", "l", "i", "c", "K", "e", "y">>
      [] name = "mint" -> <<"m", "i", "n", "t">>
      [] name = "action" -> <<"a", "c", "t", "i", "o", "n">>
      [] name = "denominatedInSol" -> <<"d", "e", "n", "o", "m", "i", "n", "a", "t", "e", "d", "I", "n", "S", "o", "l">>
      [] name = "amount" -> <<"a", "m", "o", "u", "n", "t">>
      [] name = "slippage" -> <<"s", "l", "i", "p", "p", "a", "g", "e">>
      [] name = "priorityFee" -> <<"p", "r", "i", "o", "r", "i", "t", "y", "F", "e", "e">>
      [] name = "imagePath" -> <<"i", "m", "a", "g", "e", "P", "a", "t", "h">>
      [] name = "tokenName" -> <<"t", "o", "k", "e", "n", "N", "a", "m", "e">>
      [] name = "tokenSymbol" -> <<"t", "o", "k", "e", "n", "S", "y", "m", "b", "o", "l">>
      [] name = "tokenDescription" -> <<"t", "o", "k", "e", "n", "D", "e", "s", "c", "r", "i", "p", "t", "i", "o", "n">>
      [] name = "devBuy" -> <<"d", "e", "v", "B", "u", "y">>
      [] name = "file" -> <<"f", "i", "l", "e">>

\* parameters declared without a default
RequiredParams(tool) ==
    CASE tool = "sol_create_wallet" -> {}
      [] tool = "sol_transfer_sol" -> {"fromPrivateKey", "toPublicKey", "amountSol"}
      [] tool = "sol_execute_trade" -> {"privateKeyBase58", "publicKey", "mint"}
      [] tool = "sol_create_token" ->
            {"fromPrivateKey", "imagePath", "tokenName", "tokenSymbol", "tokenDescription"}

\* parameters declared with a default, and the default
Defaults(tool) ==
    CASE tool = "sol_execute_trade" ->
            [n \in {"action", "denominatedInSol", "amount", "slippage", "priorityFee"} |->
                CASE n = "action" -> PyStr(<<"b", "u", "y">>)
                  [] n = "denominatedInSol" -> PyBool(FALSE)
                  [] n = "amount" -> PyFloat(<<"1">>, -2)
                  [] n = "slippage" -> PyInt(10)
                  [] n = "priorityFee" -> PyFloat(<<"1">>, -4)]
      [] tool = "sol_create_token" -> [n \in {"devBuy"} |-> PyFloat(<<"1">>, -2)]
      [] OTHER -> [n \in {} |-> None]

\* a variant of the call check that lets a call without a required argument through
missing_required_unchecked(tool, kw) == FALSE

\* Python refuses a call that lacks a parameter without default (TypeError)
missing_required(tool, kw) == ~(RequiredParams(tool) \subseteq DOMAIN kw)

\* the parameter values inside the tool: the argument given, else the default
\* (None stands for a value that is not there)
bind(tool, kw) ==
    [n \in RequiredParams(tool) \cup DOMAIN Defaults(tool) |->
        IF n \in DOMAIN kw THEN kw[n]
        ELSE IF n \in DOMAIN Defaults(tool) THEN Defaults(tool)[n] ELSE None]

Items(a, names) == [k \in 1..Len(names) |-> <<Key(names[k]), a[names[k]]>>]

\* the dict each tool passes on, in the order it is written
body_of(tool, a) ==
    CASE tool = "sol_create_wallet" -> <<>>
      [] tool = "sol_transfer_sol" -> Items(a, <<"fromPrivateKey", "toPublicKey", "amountSol">>)
      [] tool = "sol_execute_trade" ->
            Items(a, <<"privateKeyBase58", "publicKey", "mint", "action", "denominatedInSol",
                       "amount", "slippage", "priorityFee">>)
      [] tool = "sol_create_token" ->
            Items(a, <<"fromPrivateKey", "tokenName", "tokenSymbol", "tokenDescription", "devBuy">>)

path_of(tool) ==
    CASE tool = "sol_create_wallet" -> "/pump/createWallet"
      [] tool = "sol_transfer_sol" -> "/pump/transferSOL"
      [] tool = "sol_execute_trade" -> "/pump/executeTrade"
      [] tool = "sol_create_token" -> "/pump/createToken"

(* --------------------------- JSON responses --------------------------- *)

Quote == "\""

\* a JSON string: a quote, characters without quote, a quote; the text read
\* and what follows it
json_string(s) ==
    IF s = <<>> \/ Head(s) # Quote THEN [ok |-> FALSE, v |-> <<>>, rest |-> <<>>]
    ELSE LET close == IndexOf(Tail(s), <<Quote>>)
         IN  IF close = 0 THEN [ok |-> FALSE, v |-> <<>>, rest |-> <<>>]
             ELSE [ok |-> TRUE, v |-> SubSeq(s, 2, close), rest |-> Drop(s, close + 1)]

\* the members "k":"v" of an object, up to the closing brace
RECURSIVE json_members(_)
json_members(s) ==
    LET k == json_string(s)
        v == json_string(Drop(k.rest, 1))
        bad == [ok |-> FALSE, v |-> <<>>]
    IN  IF ~k.ok \/ k.rest = <<>> \/ Head(k.rest) # ":" \/ ~v.ok THEN bad
        ELSE IF v.rest = <<"}">> THEN [ok |-> TRUE, v |-> <<<<k.v, v.v>>>>]
        ELSE IF v.rest # <<>> /\ Head(v.rest) = ","
             THEN LET more == json_members(Tail(v.rest))
                  IN  IF more.ok THEN [ok |-> TRUE, v |-> <<<<k.v, v.v>>>> \o more.v] ELSE bad
        ELSE bad

\* json.loads on the bodies the upstream sends here: a flat object whose
\* members are strings parses to its members in order, anything else does not
json_loads(s) ==
    IF s = <<"{", "}">> THEN [ok |-> TRUE, v |-> <<>>]
    ELSE IF s # <<>> /\ Head(s) = "{" THEN json_members(Tail(s))
    ELSE [ok |-> FALSE, v |-> <<>>]

RECURSIVE dump_members(_)
dump_members(ms) ==
    LET m == Head(ms)
        line == <<" ", " ", Quote>> \o m[1] \o <<Quote, ":", " ", Quote>> \o m[2] \o <<Quote>>
    IN  IF Len(ms) = 1 THEN line \o <<"\n">> ELSE line \o <<",", "\n">> \o dump_members(Tail(ms))

\* json.dumps(value, indent=2)
json_dumps(ms) == IF ms = <<>> THEN <<"{", "}">> ELSE <<"{", "\n">> \o dump_members(ms) \o <<"}">>

(* ------------------------ inputs of the model ------------------------- *)

Invocations == 1..NumInv

\* the hexadecimal digits the model draws boundary tokens from
HexChars == {"a", "4"}

RECURSIVE SeqsOfLen(_, _)
SeqsOfLen(S, n) ==
    IF n = 0 THEN {<<>>} ELSE {<<c>> \o r : c \in S, r \in SeqsOfLen(S, n - 1)}

SeqsUpTo(S, n) == UNION {SeqsOfLen(S, k) : k \in 0..n}

\* a variant that keeps only the first characters of the token
uuid4_hex_truncated == SeqsOfLen(HexChars, BoundaryLen - 1)

\* the values uuid.uuid4().hex may return
uuid4_hex == SeqsOfLen(HexChars, BoundaryLen)

EmptyKw == [n \in {} |-> None]

Opt(name, vals) == {EmptyKw} \cup {name :> v : v \in vals}

KeyA == PyStr(<<"A">>)

KeyB == PyStr(<<"B">>)

PngPath == <<"/", "t", "/", "a", ".", "p", "n", "g">>

TransferKw == ("fromPrivateKey" :> KeyA) @@ ("toPublicKey" :> KeyB) @@ ("amountSol" :> PyFloat(<<"2">>, -1))

TradeKw == ("privateKeyBase58" :> KeyA) @@ ("publicKey" :> KeyB) @@ ("mint" :> PyStr(<<"M">>))

TokenKw ==
    ("fromPrivateKey" :> KeyA) @@ ("imagePath" :> PyStr(PngPath)) @@ ("tokenName" :> PyStr(<<"N">>))
        @@ ("tokenSymbol" :> PyStr(<<"S">>)) @@ ("tokenDescription" :> PyStr(<<"D">>))

Without(kw, name) == [n \in DOMAIN kw \ {name} |-> kw[n]]

\* the calls the invocation machine is driven with
Calls ==
    {[tool |-> "sol_create_wallet", kw |-> EmptyKw],
     [tool |-> "sol_transfer_sol", kw |-> TransferKw],
     [tool |-> "sol_transfer_sol", kw |-> Without(TransferKw, "amountSol")],
     [tool |-> "sol_execute_trade", kw |-> TradeKw @@ ("denominatedInSol" :> PyBool(TRUE))],
     [tool |-> "sol_execute_trade", kw |-> Without(TradeKw, "mint")],
     [tool |-> "sol_create_token", kw |-> TokenKw],
     [tool |-> "sol_create_token", kw |-> Without(TokenKw, "tokenName")],
     [tool |-> "sol_create_token", kw |-> ("imagePath" :> None) @@ TokenKw]}

\* what the file behind imagePath may hold when an invocation reads it
DiskContents == {<<"x", "-", "-">>}

B_Ok == <<"{", "\"", "a", "p", "i", "K", "e", "y", "\"", ":", "\"", "k", "1", "\"", "}">>

B_Err == <<"{", "\"", "e", "r", "r", "o", "r", "\"", ":", "\"", "i", "n", "s", "u", "f", "f", "i", "c", "i", "e", "n", "t", " ", "f", "u", "n", "d", "s", "\"", "}">>

B_Bad == <<"<", "h", "t", "m", "l", ">">>

\* what the upstream (or the network) may answer to one request
\* (complete is FALSE when the body stops arriving and read() times out)
Answers ==
    {[kind |-> "URLError", status |-> 0, body |-> <<>>, complete |-> FALSE],
     [kind |-> "timeout", status |-> 0, body |-> <<>>, complete |-> FALSE],
     [kind |-> "http", status |-> 500, body |-> B_Err, complete |-> TRUE],
     [kind |-> "http", status |-> 200, body |-> B_Ok, complete |-> TRUE],
     [kind |-> "http", status |-> 200, body |-> B_Ok, complete |-> FALSE],
     [kind |-> "http", status |-> 200, body |-> B_Bad, complete |-> TRUE]}

(* ------------------------- exceptions, results ------------------------ *)

NoError == [type |-> "none", code |-> 0, body |-> <<>>]

Error(type) == [type |-> type, code |-> 0, body |-> <<>>]

\* a variant that keeps the status and drops what the upstream sent
HTTPError_generic(code, body) == [type |-> "HTTPError", code |-> code, body |-> <<>>]

\* urllib.error.HTTPError: the status code and the response body as received
HTTPError(code, body) == [type |-> "HTTPError", code |-> code, body |-> body]

NoResult == [returned |-> FALSE, text |-> <<>>]

Returned(text) == [returned |-> TRUE, text |-> text]

NoRequest == [method |-> "none", url |-> <<"", "">>, ctype |-> <<>>, body |-> <<>>]

\* urllib.request.urlopen on an answer: the response on a 2xx status, else raises
urlopen(ans) ==
    CASE ans.kind = "URLError" -> [raised |-> Error("URLError")]
      [] ans.kind = "timeout" -> [raised |-> Error("timeout")]
      [] ans.kind = "http" /\ ans.status >= 200 /\ ans.status < 300 -> [raised |-> NoError]
      [] OTHER -> [raised |-> HTTPError(ans.status, ans.body)]

\* a variant that hands back the text of a body that did not parse
tool_return_unparsed(body) ==
    LET loaded == json_loads(body)
    IN  IF loaded.ok THEN [result |-> Returned(json_dumps(loaded.v)), raised |-> NoError]
        ELSE [result |-> Returned(body), raised |-> Error("JSONDecodeError")]

\* return json.dumps(json.loads(response.read().decode()), indent=2)
tool_return(body) ==
    LET loaded == json_loads(body)
    IN  IF loaded.ok THEN [result |-> Returned(json_dumps(loaded.v)), raised |-> NoError]
        ELSE [result |-> NoResult, raised |-> Error("JSONDecodeError")]

(* ------------------------------- state -------------------------------- *)

VARIABLES
    config,     \* SOL_BASE and TIMEOUT, read from the environment at import
    pc,         \* where each invocation stands
    call,       \* the tool and keyword arguments of each invocation
    handle,     \* the file each invocation opened: "none", "open" or "closed"
    frame,      \* the locals boundary and data of _post_multipart, while it runs
    drawn,      \* what uuid4 and file.read() handed to each running invocation
    calls,      \* urlopen calls made by each invocation
    request,    \* the request each running invocation passed to urlopen
    answer,     \* what came back for it
    result,     \* the text each invocation returned
    raised,     \* the exception each invocation ended with
    encIn,      \* the encoders on their own: the call whose request is built
    encOut      \* the encoders on their own: the request built for it

machine == <<config, pc, call, handle, frame, drawn, calls, request, answer, result, raised>>

vars == <<config, pc, call, handle, frame, drawn, calls, request, answer, result, raised, encIn, encOut>>

TIMEOUT_DEFAULT == 60

BaseUrls == {"https://api-solana.nodra.app", "http://localhost:8080"}

NoFile == [name |-> <<>>, content |-> <<>>]

NoCall == [tool |-> "none", kw |-> EmptyKw]

NoEncCall == [tool |-> "none", kw |-> EmptyKw, file |-> NoFile]

NoFrame == [boundary |-> <<>>, data |-> <<>>]

NoDraw == [boundary |-> <<>>, content |-> <<>>]

NoAnswer == [kind |-> "none", status |-> 0, body |-> <<>>, complete |-> FALSE]

NoEnc == [done |-> FALSE, boundary |-> <<>>, request |-> NoRequest]

MachineInit ==
    /\ config \in {[base |-> b, timeout |-> TIMEOUT_DEFAULT] : b \in BaseUrls}
    /\ pc = [i \in Invocations |-> "idle"]
    /\ call = [i \in Invocations |-> NoCall]
    /\ handle = [i \in Invocations |-> "none"]
    /\ frame = [i \in Invocations |-> NoFrame]
    /\ drawn = [i \in Invocations |-> NoDraw]
    /\ calls = [i \in Invocations |-> 0]
    /\ request = [i \in Invocations |-> NoRequest]
    /\ answer = [i \in Invocations |-> NoAnswer]
    /\ result = [i \in Invocations |-> NoResult]
    /\ raised = [i \in Invocations |-> NoError]

Init == MachineInit /\ encIn = NoEncCall /\ encOut = NoEnc

(* ----------------------------- the steps ------------------------------ *)

\* a variant in which the locals of _post_multipart live in one shared place
slot_shared(i) == 1

\* each invocation of _post_multipart has its own locals
slot(i) == i

\* a variant that closes the file only when the block ends without exception
exit_stack_success_only(h, exc) == IF h = "open" /\ exc.type = "none" THEN "closed" ELSE h

\* leaving the with block of sol_create_token closes the file it entered,
\* however the block ends
exit_stack(h, exc) == IF h = "open" THEN "closed" ELSE h

\* a variant that sends the request again
urlopen_count_twice(n) == n + 2

\* one call of urllib.request.urlopen
urlopen_count(n) == n + 1

url(path) == <<config.base, path>>

WithUrl(req) == [method |-> req.method, url |-> url(req.path), ctype |-> req.ctype, body |-> req.body]

\* the invocation ends: by return (exc is NoError) or by the exception exc;
\* its locals go, and the with block of sol_create_token is left
Exit(i, exc, res) ==
    /\ pc' = [pc EXCEPT ![i] = "done"]
    /\ raised' = [raised EXCEPT ![i] = exc]
    /\ result' = [result EXCEPT ![i] = res]
    /\ handle' = [handle EXCEPT ![i] = exit_stack(handle[i], exc)]
    /\ frame' = [frame EXCEPT ![slot(i)] = NoFrame]
    /\ drawn' = [drawn EXCEPT ![i] = NoDraw]
    /\ request' = [request EXCEPT ![i] = NoRequest]

\* the request goes out: urlopen is called with it
Send(i, req) ==
    /\ pc' = [pc EXCEPT ![i] = "waiting"]
    /\ request' = [request EXCEPT ![i] = WithUrl(req)]
    /\ calls' = [calls EXCEPT ![i] = urlopen_count(calls[i])]

\* a tool is called.  sol_create_wallet, sol_transfer_sol and sol_execute_trade
\* run up to their urlopen; sol_create_token runs up to open(imagePath, "rb")
Call(i, c, openOk) ==
    /\ pc[i] = "idle"
    /\ call' = [call EXCEPT ![i] = c]
    /\ LET a == bind(c.tool, c.kw)
       IN  IF missing_required(c.tool, c.kw)
           THEN /\ Exit(i, Error("TypeError"), NoResult)
                /\ UNCHANGED calls
           ELSE IF c.tool = "sol_create_wallet"
           THEN /\ Send(i, get_json_request(path_of(c.tool)))
                /\ UNCHANGED <<handle, frame, drawn, raised, result>>
           ELSE IF c.tool \in {"sol_transfer_sol", "sol_execute_trade"}
           THEN /\ Send(i, post_json_request(path_of(c.tool), body_of(c.tool, a)))
                /\ UNCHANGED <<handle, frame, drawn, raised, result>>
           ELSE IF a["imagePath"] = None
           THEN /\ Exit(i, Error("TypeError"), NoResult)
                /\ UNCHANGED calls
           ELSE IF ~openOk
           THEN /\ Exit(i, Error("OSError"), NoResult)
                /\ UNCHANGED calls
           ELSE /\ pc' = [pc EXCEPT ![i] = "entered"]
                /\ handle' = [handle EXCEPT ![i] = "open"]
                /\ UNCHANGED <<frame, drawn, calls, request, raised, result>>
    /\ UNCHANGED <<config, answer, encIn, encOut>>

\* _post_multipart, lines 43-53: the boundary is drawn and the text fields
\* are written to data
BuildFields(i, b) ==
    /\ pc[i] = "entered"
    /\ pc' = [pc EXCEPT ![i] = "fields"]
    /\ frame' = [frame EXCEPT ![slot(i)] =
            [boundary |-> b,
             data |-> field_parts(b, body_of(call[i].tool, bind(call[i].tool, call[i].kw)))]]
    /\ drawn' = [drawn EXCEPT ![i] = [boundary |-> b, content |-> <<>>]]
    /\ UNCHANGED <<config, call, handle, calls, request, answer, result, raised, encIn, encOut>>

\* _post_multipart, lines 55-69: the file is read, its part and the closing
\* marker are appended to data, and urlopen is called
ReadFileAndSend(i, readOk, content) ==
    /\ pc[i] = "fields"
    /\ IF ~readOk
       THEN /\ Exit(i, Error("OSError"), NoResult)
            /\ UNCHANGED calls
       ELSE LET f == frame[slot(i)]
                path == bind(call[i].tool, call[i].kw)["imagePath"].s
                files == <<<<Key("file"), [name |-> path, content |-> content]>>>>
                data == f.data \o file_parts(f.boundary, files)
                            \o DashDash \o f.boundary \o DashDash \o CRLF
            IN  /\ Send(i, [method |-> "POST", path |-> path_of(call[i].tool),
                            ctype |-> S_MultipartBoundary \o f.boundary, body |-> data])
                /\ frame' = [frame EXCEPT ![slot(i)] = [boundary |-> f.boundary, data |-> data]]
                /\ drawn' = [drawn EXCEPT ![i] = [boundary |-> drawn[i].boundary, content |-> content]]
                /\ UNCHANGED <<handle, raised, result>>
    /\ UNCHANGED <<config, call, answer, encIn, encOut>>

\* urlopen comes back and the with block around it runs: an exception unless
\* the status is 2xx; then response.read(), json.loads, json.dumps, return
Respond(i, ans) ==
    /\ pc[i] = "waiting"
    /\ answer' = [answer EXCEPT ![i] = ans]
    /\ IF urlopen(ans).raised # NoError THEN Exit(i, urlopen(ans).raised, NoResult)
       ELSE IF ~ans.complete THEN Exit(i, Error("timeout"), NoResult)
       ELSE Exit(i, tool_return(ans.body).raised, tool_return(ans.body).result)
    /\ UNCHANGED <<config, call, calls, encIn, encOut>>

Next ==
    \/ \E i \in Invocations, c \in Calls, openOk \in BOOLEAN : Call(i, c, openOk)
    \/ \E i \in Invocations, b \in uuid4_hex : BuildFields(i, b)
    \/ \E i \in Invocations, readOk \in BOOLEAN, content \in DiskContents :
            ReadFileAndSend(i, readOk, content)
    \/ \E i \in Invocations, ans \in Answers : Respond(i, ans)

Spec == Init /\ [][Next]_vars

(* ------------------- the encoders on their own ------------------------ *)

\* the calls whose request is built: arguments given, left out or None, a
\* value with reserved characters, file names and contents of several kinds
FormCalls ==
    {[tool |-> "sol_transfer_sol", file |-> NoFile,
      kw |-> ("fromPrivateKey" :> f) @@ ("toPublicKey" :> KeyB) @@ ("amountSol" :> am)] :
        f \in {KeyA, None},
        am \in {PyFloat(<<"2">>, -1), PyStr(<<"1", "&", "2">>), None}}
    \cup
    {[tool |-> "sol_execute_trade", file |-> NoFile,
      kw |-> ("privateKeyBase58" :> KeyA) @@ ("publicKey" :> KeyB) @@ ("mint" :> m)
                @@ ac @@ dn @@ am] :
        m \in {PyStr(<<"M">>), None},
        ac \in Opt("action", {PyStr(<<"s", "e", "l", "l">>), None}),
        dn \in Opt("denominatedInSol", {PyBool(TRUE), PyBool(FALSE), None}),
        am \in Opt("amount", {None})}

\* contents built to look like a part separator, and plain ones
FileContents ==
    SeqsUpTo({"x", "-"}, MaxContentLen)
        \cup uuid4_hex \cup {CRLF \o DashDash \o b : b \in uuid4_hex}

ImagePaths ==
    {PngPath, <<"a">>, <<"t", "/", "a", "\"", "b", ".", "t", "x", "t">>}

MultipartCalls ==
    {[tool |-> "sol_create_token",
      file |-> [name |-> p, content |-> c],
      kw |-> ("fromPrivateKey" :> f) @@ ("imagePath" :> PyStr(p)) @@ ("tokenName" :> PyStr(<<"N">>))
                @@ ("tokenSymbol" :> PyStr(<<"S">>)) @@ ("tokenDescription" :> d) @@ dv] :
        p \in ImagePaths, c \in FileContents,
        f \in {KeyA, None},
        d \in {PyStr(<<"D">>)} \cup {PyStr(<<"x">> \o CRLF \o DashDash \o b) : b \in uuid4_hex},
        dv \in Opt("devBuy", {None})}

EncInit == MachineInit /\ encIn \in FormCalls \cup MultipartCalls /\ encOut = NoEnc

\* _post_json builds the request of sol_transfer_sol or sol_execute_trade
EncodeForm ==
    /\ ~encOut.done
    /\ encIn.tool \in {"sol_transfer_sol", "sol_execute_trade"}
    /\ encOut' = [done |-> TRUE, boundary |-> <<>>,
                  request |-> WithUrl(post_json_request(path_of(encIn.tool),
                                        body_of(encIn.tool, bind(encIn.tool, encIn.kw))))]
    /\ UNCHANGED <<machine, encIn>>

\* _post_multipart builds the request of sol_create_token with boundary b
EncodeMultipart(b) ==
    /\ ~encOut.done
    /\ encIn.tool = "sol_create_token"
    /\ encOut' = [done |-> TRUE, boundary |-> b,
                  request |-> WithUrl(post_multipart_request(path_of(encIn.tool), b,
                                        body_of(encIn.tool, bind(encIn.tool, encIn.kw)),
                                        <<<<Key("file"), encIn.file>>>>))]
    /\ UNCHANGED <<machine, encIn>>

EncNext == EncodeForm \/ \E b \in uuid4_hex : EncodeMultipart(b)

EncSpec == EncInit /\ [][EncNext]_vars

(* ============================ the claims ============================== *)

ValidationErrors == {"TypeError", "OSError"}

UpstreamErrors == {"URLError", "timeout", "HTTPError", "JSONDecodeError"}

LacksRequired(c) == ~(RequiredParams(c.tool) \subseteq DOMAIN c.kw)

\* C1: an invocation that ends in an input-validation failure (a required
\* argument is missing, or the file of sol_create_token cannot be opened or
\* read) has made no urlopen call; a call that lacks a required argument
\* ends that way at once.
C1_NoRequestOnInvalidInput ==
    \A i \in Invocations :
        /\ (pc[i] # "idle" /\ LacksRequired(call[i])) =>
                pc[i] = "done" /\ raised[i].type = "TypeError" /\ calls[i] = 0
        /\ (pc[i] = "done" /\ raised[i].type \in ValidationErrors) => calls[i] = 0

C1_Witness ==
    \E i, j \in Invocations :
        /\ pc[i] = "done" /\ LacksRequired(call[i]) /\ call[i].tool = "sol_execute_trade"
        /\ raised[i].type = "TypeError" /\ calls[i] = 0
        /\ pc[j] = "done" /\ call[j].tool = "sol_create_token"
        /\ raised[j].type = "OSError" /\ calls[j] = 0

\* C2: when an invocation of sol_create_token has ended, by return or by
\* any exception, the file it opened is closed; a file is open only while
\* the invocation is inside its with block.
C2_FileHandleClosed ==
    \A i \in Invocations :
        /\ pc[i] = "done" => handle[i] # "open"
        /\ handle[i] = "open" => pc[i] \in {"entered", "fields", "waiting"}

C2_Witness ==
    \E i, j \in Invocations :
        /\ pc[i] = "done" /\ handle[i] = "closed" /\ raised[i].type = "HTTPError"
        /\ pc[j] = "done" /\ handle[j] = "closed" /\ raised[j].type = "OSError"

\* C3: an ended invocation is in exactly one of the outcomes success, input
\* failure, upstream failure; text is returned only on success, that is after
\* a 2xx answer whose whole body was read and parsed, and then it is the
\* dumped JSON; in every failing outcome, a body that is not JSON included,
\* nothing is returned.
C3_NoPartialResult ==
    \A i \in Invocations :
        /\ pc[i] # "done" => ~result[i].returned
        /\ pc[i] = "done" =>
            /\ raised[i].type \in {"none"} \cup ValidationErrors \cup UpstreamErrors
            /\ result[i].returned <=> raised[i].type = "none"
            /\ ~result[i].returned => result[i].text = <<>>
            /\ result[i].returned =>
                /\ answer[i].kind = "http" /\ answer[i].status \in 200..299
                /\ answer[i].complete
                /\ json_loads(answer[i].body).ok
                /\ result[i].text = json_dumps(json_loads(answer[i].body).v)

C3_Witness ==
    \E i, j \in Invocations :
        /\ pc[i] = "done" /\ raised[i].type = "JSONDecodeError" /\ ~result[i].returned
        /\ pc[j] = "done" /\ result[j].returned /\ answer[j].body = B_Ok

RECURSIVE Split(_, _)
Split(s, c) ==
    IF s = <<>> THEN <<>>
    ELSE LET k == IndexOf(s, <<c>>)
         IN  IF k = 0 THEN <<s>>
             ELSE <<SubSeq(s, 1, k - 1)>>
                    \o (IF k = Len(s) THEN <<<<>>>> ELSE Split(Drop(s, k), c))

EncData == body_of(encIn.tool, bind(encIn.tool, encIn.kw))

EncIsForm == encOut.done /\ encIn.tool \in {"sol_transfer_sol", "sol_execute_trade"}

EncIsMultipart == encOut.done /\ encIn.tool = "sol_create_token"

\* C5: the form body is, joined by &, one pair key=value for each argument
\* whose value is not None, in the order of the mapping, and no pair at all
\* for an argument whose value is None.
C5_FormOmitsNone ==
    EncIsForm =>
        LET present == SelectSeq(EncData, LAMBDA kv : kv[2].t # "None")
            pairs == Split(encOut.request.body, "&")
        IN  /\ Len(pairs) = Len(present)
            /\ \A k \in 1..Len(present) :
                    pairs[k] = quote_plus(present[k][1]) \o <<"=">>
                                    \o quote_plus(py_str(present[k][2]))
            /\ \A k \in 1..Len(EncData) :
                    EncData[k][2].t = "None" =>
                        \A n \in 1..Len(pairs) : ~StartsWith(pairs[n], EncData[k][1] \o <<"=">>)

C5_Witness ==
    /\ EncIsForm
    /\ encIn.tool = "sol_execute_trade"
    /\ \E k \in 1..Len(EncData) : EncData[k][2].t = "None"
    /\ Len(Split(encOut.request.body, "&")) < Len(EncData)

(* a multipart reader, as a receiving server applies it: the body opens with
   --boundary, every part ends at the next CRLF --boundary, and the marker
   --boundary-- closes the body *)

Delimiter(b) == CRLF \o DashDash \o b

BadParts == [ok |-> FALSE, parts |-> <<>>]

\* the raw parts of s, the text right after a delimiter
RECURSIVE RawParts(_, _)
RawParts(s, b) ==
    IF StartsWith(s, DashDash) THEN [ok |-> TRUE, parts |-> <<>>]
    ELSE IF ~StartsWith(s, CRLF) THEN BadParts
    ELSE LET rest == Drop(s, 2)
             k == IndexOf(rest, Delimiter(b))
         IN  IF k = 0 THEN BadParts
             ELSE LET more == RawParts(Drop(rest, k - 1 + Len(Delimiter(b))), b)
                  IN  IF more.ok
                      THEN [ok |-> TRUE, parts |-> <<SubSeq(rest, 1, k - 1)>> \o more.parts]
                      ELSE BadParts

Part(kind, name, filename, ctype, content) ==
    [kind |-> kind, name |-> name, filename |-> filename, ctype |-> ctype, content |-> content]

Malformed == Part("malformed", <<>>, <<>>, <<>>, <<>>)

\* one raw part read: its header lines up to the empty line, then its content
ReadPart(raw) ==
    LET h == IndexOf(raw, CRLF \o CRLF)
        lines == Split(SubSeq(raw, 1, h - 1), "\n")
        line1 == IF Len(lines) > 1 THEN SubSeq(lines[1], 1, Len(lines[1]) - 1) ELSE lines[1]
        content == Drop(raw, h + 3)
        afterName == Drop(line1, Len(S_ContentDispositionName))
        q == IndexOf(afterName, <<Quote>>)
        name == SubSeq(afterName, 1, q - 1)
        tail == Drop(afterName, q)
        afterFile == Drop(tail, Len(S_Filename))
        q2 == IndexOf(afterFile, <<Quote>>)
    IN  IF h = 0 \/ Len(lines) = 0 \/ Len(lines) > 2 THEN Malformed
        ELSE IF ~StartsWith(line1, S_ContentDispositionName) \/ q = 0 THEN Malformed
        ELSE IF tail = <<>>
             THEN IF Len(lines) = 1 THEN Part("field", name, <<>>, <<>>, content) ELSE Malformed
        ELSE IF ~StartsWith(tail, S_Filename) \/ q2 = 0 \/ Drop(afterFile, q2) # <<>>
             THEN Malformed
        ELSE IF Len(lines) = 2 /\ StartsWith(lines[2], S_ContentType)
             THEN Part("file", name, SubSeq(afterFile, 1, q2 - 1),
                       Drop(lines[2], Len(S_ContentType)), content)
        ELSE Malformed

\* the parts a reader recovers from a body sent with boundary b
Decode(body, b) ==
    IF ~StartsWith(body, DashDash \o b) THEN <<Malformed>>
    ELSE LET raw == RawParts(Drop(body, 2 + Len(b)), b)
         IN  IF raw.ok THEN [k \in 1..Len(raw.parts) |-> ReadPart(raw.parts[k])]
             ELSE <<Malformed>>

\* the parts that went in: the fields that are not None, then the file
PartsGiven ==
    LET present == SelectSeq(EncData, LAMBDA kv : kv[2].t # "None")
        filename == basename(encIn.file.name)
    IN  [k \in 1..Len(present) |->
            Part("field", present[k][1], <<>>, <<>>, py_str(present[k][2]))]
        \o <<Part("file", Key("file"), filename, filetype(filename), encIn.file.content)>>

\* C6: reading the multipart body back recovers exactly the fields that are
\* not None, in order, and the file with its name, type and content.
C6_MultipartRoundTrip ==
    EncIsMultipart => Decode(encOut.request.body, encOut.boundary) = PartsGiven

\* the round trip does hold on plain input: nothing hides a delimiter, and the
\* file name has no quote
C6_RoundTripOnPlainInput ==
    /\ EncIsMultipart
    /\ encIn.file.name = PngPath
    /\ encIn.file.content = <<"-", "-">>
    /\ Decode(encOut.request.body, encOut.boundary) = PartsGiven

TextsCarried ==
    {encIn.file.content} \cup {py_str(EncData[k][2]) : k \in {n \in 1..Len(EncData) : EncData[n][2].t # "None"}}

\* C7 as stated: the boundary of a request occurs neither in its file
\* content nor in any of its text values.
C7_BoundaryNeverInContent ==
    EncIsMultipart => \A s \in TextsCarried : ~Contains(s, encOut.boundary)

HexDigits == {"0", "1", "2", "3", "4", "5", "6", "7", "8", "9", "a", "b", "c", "d", "e", "f"}

HasHexRun(s, n) ==
    \E i \in 1..(Len(s) - n + 1) : \A j \in i..(i + n - 1) : s[j] \in HexDigits

\* C7 as amended: the boundary is a run of BoundaryLen hexadecimal digits, so
\* it occurs in no file content and no text value that is free of such a run.
C7_BoundaryNotInHexFreeContent ==
    EncIsMultipart =>
        /\ Len(encOut.boundary) = BoundaryLen
        /\ \A s \in TextsCarried : ~HasHexRun(s, BoundaryLen) => ~Contains(s, encOut.boundary)

C7_Witness ==
    /\ EncIsMultipart
    /\ encIn.file.content = <<"-", "-">>
    /\ ~Contains(encIn.file.content, encOut.boundary)
    /\ Contains(encOut.request.body, DashDash \o encOut.boundary)

\* C8: a sol_execute_trade whose request is answered with a status outside
\* 2xx ends with an HTTPError that holds that status and the body exactly as
\* the upstream sent it, and returns nothing.
C8_ErrorBodyVerbatim ==
    \A i \in Invocations :
        (/\ pc[i] = "done" /\ call[i].tool = "sol_execute_trade"
         /\ answer[i].kind = "http" /\ answer[i].status \notin 200..299) =>
            /\ raised[i] = [type |-> "HTTPError", code |-> answer[i].status, body |-> answer[i].body]
            /\ ~result[i].returned

C8_Witness ==
    \E i \in Invocations :
        /\ pc[i] = "done" /\ call[i].tool = "sol_execute_trade"
        /\ answer[i].status = 500
        /\ raised[i].body = B_Err /\ raised[i].code = 500

\* the request an invocation sends when it runs alone: its call, the boundary
\* and the file content it was handed, and the configuration decide it
RequestAlone(c, d) ==
    LET a == bind(c.tool, c.kw)
    IN  CASE c.tool = "sol_create_wallet" -> WithUrl(get_json_request(path_of(c.tool)))
          [] c.tool \in {"sol_transfer_sol", "sol_execute_trade"} ->
                WithUrl(post_json_request(path_of(c.tool), body_of(c.tool, a)))
          [] c.tool = "sol_create_token" ->
                WithUrl(post_multipart_request(path_of(c.tool), d.boundary, body_of(c.tool, a),
                            <<<<Key("file"), [name |-> a["imagePath"].s, content |-> d.content]>>>>))

\* the way it ends when it runs alone and gets the answer ans
OutcomeAlone(ans) ==
    IF ans.kind \in {"URLError", "timeout"} THEN <<ans.kind, FALSE>>
    ELSE IF ans.status \notin 200..299 THEN <<"HTTPError", FALSE>>
    ELSE IF ~ans.complete THEN <<"timeout", FALSE>>
    ELSE IF json_loads(ans.body).ok THEN <<"none", TRUE>>
    ELSE <<"JSONDecodeError", FALSE>>

Independent ==
    \A i \in Invocations :
        /\ pc[i] = "waiting" => request[i] = RequestAlone(call[i], drawn[i])
        /\ (pc[i] = "done" /\ answer[i] # NoAnswer) =>
                <<raised[i].type, result[i].returned>> = OutcomeAlone(answer[i])
        /\ pc[i] \in {"entered", "fields"} => handle[i] = "open"

\* C9: whatever the interleaving, each invocation sends the request and ends
\* the way it would alone; the base URL and timeout never change after start.
C9_Independence == [](Independent) /\ [][config' = config]_vars

C9_Witness ==
    /\ pc[1] = "waiting" /\ pc[2] = "waiting"
    /\ call[1].tool = "sol_create_token" /\ call[2].tool = "sol_create_token"
    /\ drawn[1].boundary # drawn[2].boundary
    /\ request[1] = RequestAlone(call[1], drawn[1])
    /\ request[2] = RequestAlone(call[2], drawn[2])

\* the pair sent for key in a form body, <<>> when there is none
PairFor(key, body) ==
    LET pairs == Split(body, "&")
        hits == {n \in 1..Len(pairs) : StartsWith(pairs[n], key \o <<"=">>)}
    IN  IF hits = {} THEN <<>> ELSE pairs[CHOOSE n \in hits : TRUE]

\* C10: sol_execute_trade sends its boolean argument as true or false, in
\* lower case.
C10_BooleanLowercase ==
    (EncIsForm /\ encIn.tool = "sol_execute_trade") =>
        LET v == bind(encIn.tool, encIn.kw)["denominatedInSol"]
        IN  v.t = "bool" =>
                PairFor(Key("denominatedInSol"), encOut.request.body)
                    = Key("denominatedInSol") \o <<"=">>
                        \o (IF v.b THEN <<"t", "r", "u", "e">> ELSE <<"f", "a", "l", "s", "e">>)

====
